---- MODULE Spec2Model ----
(***************************************************************************)
(* State-machine model of the SSH tunnel of package sshtun (sshtun.go):    *)
(* Start / Stop / stop, the listen goroutine with its errgroup, the accept *)
(* loop, and the per-connection handle / addConn / forward / removeConn.   *)
(* Every blocking call of the code (mutex Lock, ssh.Dial, Accept, the      *)
(* channel receive, errgroup.Wait, the session Close) is a step of its     *)
(* own, so the states in which a goroutine is inside such a call are       *)
(* visible.                                                                *)
(***************************************************************************)
EXTENDS Integers, Sequences, FiniteSets, TLC

\* ---------------------------------------------------------------- bounds
\* Number of Start calls that take the started flag (runs of the tunnel).
MaxRuns == 2
\* Number of connections Accept returns, over all runs.
MaxConns == 2

\* Goroutines that call Start: the example's restart loop and a second,
\* concurrent caller.
Callers == {"c1", "c2"}
Conns == 1..MaxConns

\* ------------------------------------------------------- program constants
Local == 0
Remote == 1
StateStopped == 0
StateStarting == 1
StateStarted == 2

\* Error values: nil, and the fmt.Errorf results by the phase they name.
NoErr == "nil"
AlreadyStarted == "already started"
ConfigErr == "ssh config failed"
LocalListenErr == "local listen failed"
LocalListenCtxErr == "local listen failed: operation was canceled"
DialErr == "ssh dial failed"
\* The same text, returned by addConn for a connection rather than by Start.
ConnDialErr == "ssh dial failed (addConn)"
RemoteListenErr == "remote listen failed"
AcceptErr == "accept failed"

VARIABLES
    forwardType,  \* tun.forwardType, fixed before the first Start
    mutex,        \* tun.mutex: 0 when free, else the connection whose handler holds it
    started,      \* tun.started
    ctx,          \* tun.ctx / tun.cancel: 0 is nil, n the pair made by the n-th run
    ctxDone,      \* tun.ctx is done: tun.cancel was called (the parent passed to Start
                  \* is context.Background(), as in the example, and is never done)
    active,       \* tun.active
    sshClient,    \* tun.sshClient: 0 is nil, else the session dialed by addConn
    pc,           \* position of each Start caller
    result,       \* the error a Start call is about to return or has returned
    run,          \* the run (value of ctx) a caller's call owns, 0 if none
    listener,     \* "none", "open", "closed"
    lpc,          \* position of the goroutine running tun.listen
    listenRet,    \* the value tun.listen sent on errChan
    apc,          \* position of the accept goroutine
    groupErr,     \* errgroup's first non-nil error (its context is done once set)
    hpc,          \* position of the handler goroutine of each accepted connection
    accepted,     \* connections Accept has returned so far
    dials,        \* sessions ssh.Dial has opened in this run
    closes,       \* sessions closed in this run
    acceptFailedFirst, \* Accept failed with the listener open, before any call of Stop
                  \* in this run and before any other error of the group
    tunnelLog,    \* <<run, state>> of the connState callbacks, in delivery order
    connLog,      \* the tunneledConnState callbacks of each connection of this run
    spc           \* position of the goroutine calling Stop

vars == <<forwardType, mutex, started, ctx, ctxDone, active, sshClient, pc, result, run,
          listener, lpc, listenRet, apc, groupErr, hpc, accepted, dials, closes,
          acceptFailedFirst, tunnelLog, connLog, spc>>

\* ---------------------------------------------------------------- helpers
\* groupCtx of errgroup.WithContext(tun.ctx): done when the parent is done or a
\* function passed to Go has returned a non-nil error.
GroupDone == ctxDone \/ groupErr # NoErr

\* errgroup keeps the first non-nil error only.
FirstErr(e) == IF groupErr = NoErr THEN e ELSE groupErr

\* The connState callback, tun.connState(tun, s), called by run g.
Notify(g, s) == Append(tunnelLog, <<g, s>>)

\* The tunneledConnState callback for connection k.
NotifyConn(k, what) == [connLog EXCEPT ![k] = Append(@, what)]

\* A Start call that has taken the flag and whose stop() has not cleared it.
InFlightPcs == {"notifyStarting", "initSSHConfig", "localListen", "remoteDial",
                "remoteListen", "spawn", "notifyStarted", "recv", "stop"}

\* The callbacks of the calls still in progress: what an observer keeps when a
\* new run begins (the calls that have returned are complete and dropped).
Pending(c) == [i \in 1..Len(SelectSeq(tunnelLog, LAMBDA e :
                     \E d \in Callers \ {c} : pc[d] = "notifyStopped" /\ run[d] = e[1]))
                 |-> SelectSeq(tunnelLog, LAMBDA e :
                     \E d \in Callers \ {c} : pc[d] = "notifyStopped" /\ run[d] = e[1])[i]]

Init ==
    /\ forwardType \in {Local, Remote}
    /\ mutex = 0
    /\ started = FALSE
    /\ ctx = 0
    /\ ctxDone = FALSE
    /\ active = 0
    /\ sshClient = 0
    /\ pc = [c \in Callers |-> "idle"]
    /\ result = [c \in Callers |-> "none"]
    /\ run = [c \in Callers |-> 0]
    /\ listener = "none"
    /\ lpc = "none"
    /\ listenRet = "none"
    /\ apc = "none"
    /\ groupErr = NoErr
    /\ hpc = [k \in Conns |-> "none"]
    /\ accepted = 0
    /\ dials = 0
    /\ closes = 0
    /\ acceptFailedFirst = FALSE
    /\ tunnelLog = <<>>
    /\ connLog = [k \in Conns |-> <<>>]
    /\ spc = "idle"

\* ------------------------------------------------------------------ Start
\* Start, lines 239-242: the flag is set; the call returns "already started" and
\* touches nothing else.
StartReject(c) ==
    /\ pc' = [pc EXCEPT ![c] = "returned"]
    /\ result' = [result EXCEPT ![c] = AlreadyStarted]
    /\ run' = [run EXCEPT ![c] = 0]
    /\ UNCHANGED <<started, ctx, ctxDone, listener, lpc, listenRet, apc, groupErr, hpc,
                   dials, closes, acceptFailedFirst, tunnelLog, connLog, spc>>

\* Start, lines 243-244: the flag is taken and tun.ctx, tun.cancel are replaced.
\* A new run begins: the locals of the call (listener, errChan, errgroup) are fresh,
\* and the record kept of the calls that have returned is dropped.
StartTake(c) ==
    /\ ctx < MaxRuns
    /\ started' = TRUE
    /\ ctx' = ctx + 1
    /\ ctxDone' = FALSE
    /\ pc' = [d \in Callers |-> IF d = c THEN "notifyStarting"
                                ELSE IF pc[d] = "returned" THEN "idle" ELSE pc[d]]
    /\ result' = [d \in Callers |-> "none"]
    /\ run' = [d \in Callers |-> IF d = c THEN ctx + 1
                                 ELSE IF pc[d] = "returned" THEN 0 ELSE run[d]]
    /\ listener' = "none"
    /\ lpc' = "none"
    /\ listenRet' = "none"
    /\ apc' = "none"
    /\ groupErr' = NoErr
    /\ hpc' = [k \in Conns |-> "none"]
    /\ dials' = 0
    /\ closes' = 0
    /\ acceptFailedFirst' = FALSE
    /\ connLog' = [k \in Conns |-> <<>>]
    /\ tunnelLog' = Pending(c)
    /\ spc' = IF spc = "noop" THEN "idle" ELSE spc

\* A Start that does not look at tun.started.
StartCallNoCheck(c) ==
    /\ pc[c] \in {"idle", "returned"}
    /\ mutex = 0
    /\ StartTake(c)
    /\ UNCHANGED <<forwardType, mutex, active, sshClient, accepted>>

\* Start, lines 238-245: the check of tun.started and the flag / context update,
\* under the mutex.
StartCall(c) ==
    /\ pc[c] \in {"idle", "returned"}
    /\ mutex = 0
    /\ IF started THEN StartReject(c) ELSE StartTake(c)
    /\ UNCHANGED <<forwardType, mutex, active, sshClient, accepted>>

\* Start, lines 247-249.
NotifyStarting(c) ==
    /\ pc[c] = "notifyStarting"
    /\ tunnelLog' = Notify(run[c], StateStarting)
    /\ pc' = [pc EXCEPT ![c] = "initSSHConfig"]
    /\ UNCHANGED <<forwardType, mutex, started, ctx, ctxDone, active, sshClient,
                   result, run, listener, lpc, listenRet, apc, groupErr, hpc, accepted,
                   dials, closes, acceptFailedFirst, connLog, spc>>

\* Start, lines 251-255: initSSHConfig succeeds or fails.
InitSSHConfig(c) ==
    /\ pc[c] = "initSSHConfig"
    /\ \E ok \in BOOLEAN :
        IF ok
        THEN /\ pc' = [pc EXCEPT ![c] =
                          IF forwardType = Local THEN "localListen" ELSE "remoteDial"]
             /\ UNCHANGED result
        ELSE /\ pc' = [pc EXCEPT ![c] = "stop"]
             /\ result' = [result EXCEPT ![c] = ConfigErr]
    /\ UNCHANGED <<forwardType, mutex, started, ctx, ctxDone, active, sshClient, run,
                   listener, lpc, listenRet, apc, groupErr, hpc, accepted, dials,
                   closes, acceptFailedFirst, tunnelLog, connLog, spc>>

\* Start, lines 260-264: listenConfig.Listen(tun.ctx, ...). It fails for reasons of
\* its own (port bound), and it uses tun.ctx while resolving the address, so with
\* tun.ctx done it may fail with the context's error.
LocalListen(c) ==
    /\ pc[c] = "localListen"
    /\ forwardType = Local
    /\ \E out \in {"ok", "fail"} \cup (IF ctxDone THEN {"canceled"} ELSE {}) :
        IF out = "ok"
        THEN /\ listener' = "open"
             /\ pc' = [pc EXCEPT ![c] = "spawn"]
             /\ UNCHANGED result
        ELSE /\ pc' = [pc EXCEPT ![c] = "stop"]
             /\ result' = [result EXCEPT ![c] =
                              IF out = "fail" THEN LocalListenErr ELSE LocalListenCtxErr]
             /\ UNCHANGED listener
    /\ UNCHANGED <<forwardType, mutex, started, ctx, ctxDone, active, sshClient, run,
                   lpc, listenRet, apc, groupErr, hpc, accepted, dials, closes,
                   acceptFailedFirst, tunnelLog, connLog, spc>>

\* Start, lines 266-269: ssh.Dial into the local variable sshClient.
RemoteDial(c) ==
    /\ pc[c] = "remoteDial"
    /\ forwardType = Remote
    /\ \E ok \in BOOLEAN :
        IF ok
        THEN /\ dials' = dials + 1
             /\ pc' = [pc EXCEPT ![c] = "remoteListen"]
             /\ UNCHANGED result
        ELSE /\ pc' = [pc EXCEPT ![c] = "stop"]
             /\ result' = [result EXCEPT ![c] = DialErr]
             /\ UNCHANGED dials
    /\ UNCHANGED <<forwardType, mutex, started, ctx, ctxDone, active, sshClient, run,
                   listener, lpc, listenRet, apc, groupErr, hpc, accepted, closes,
                   acceptFailedFirst, tunnelLog, connLog, spc>>

\* Start, lines 270-273: sshClient.Listen on the session just dialed.
RemoteListen(c) ==
    /\ pc[c] = "remoteListen"
    /\ \E ok \in BOOLEAN :
        IF ok
        THEN /\ listener' = "open"
             /\ pc' = [pc EXCEPT ![c] = "spawn"]
             /\ UNCHANGED result
        ELSE /\ pc' = [pc EXCEPT ![c] = "stop"]
             /\ result' = [result EXCEPT ![c] = RemoteListenErr]
             /\ UNCHANGED listener
    /\ UNCHANGED <<forwardType, mutex, started, ctx, ctxDone, active, sshClient, run,
                   lpc, listenRet, apc, groupErr, hpc, accepted, dials, closes,
                   acceptFailedFirst, tunnelLog, connLog, spc>>

\* A Start that makes the context of the run only when the accept loop starts: a
\* cancellation that came during setup is not seen by listen.
SpawnListenFreshCtx(c) ==
    /\ pc[c] = "spawn"
    /\ lpc' = "waitDone"
    /\ apc' = "accept"
    /\ ctxDone' = FALSE
    /\ pc' = [pc EXCEPT ![c] = "notifyStarted"]
    /\ UNCHANGED <<forwardType, mutex, started, ctx, active, sshClient, result, run,
                   listener, listenRet, groupErr, hpc, accepted, dials, closes,
                   acceptFailedFirst, tunnelLog, connLog, spc>>

\* Start, lines 276-279, and listen, lines 366-378: the goroutine running
\* tun.listen is started; it makes the errgroup and starts the accept goroutine.
SpawnListen(c) ==
    /\ pc[c] = "spawn"
    /\ lpc' = "waitDone"
    /\ apc' = "accept"
    /\ pc' = [pc EXCEPT ![c] = "notifyStarted"]
    /\ UNCHANGED <<forwardType, mutex, started, ctx, ctxDone, active, sshClient,
                   result, run, listener, listenRet, groupErr, hpc, accepted, dials,
                   closes, acceptFailedFirst, tunnelLog, connLog, spc>>

\* A Start that does not deliver the Started notification.
SkipNotifyStarted(c) ==
    /\ pc[c] = "notifyStarted"
    /\ pc' = [pc EXCEPT ![c] = "recv"]
    /\ UNCHANGED <<forwardType, mutex, started, ctx, ctxDone, active, sshClient,
                   result, run, listener, lpc, listenRet, apc, groupErr, hpc, accepted,
                   dials, closes, acceptFailedFirst, tunnelLog, connLog, spc>>

\* Start, lines 281-283.
NotifyStarted(c) ==
    /\ pc[c] = "notifyStarted"
    /\ tunnelLog' = Notify(run[c], StateStarted)
    /\ pc' = [pc EXCEPT ![c] = "recv"]
    /\ UNCHANGED <<forwardType, mutex, started, ctx, ctxDone, active, sshClient,
                   result, run, listener, lpc, listenRet, apc, groupErr, hpc, accepted,
                   dials, closes, acceptFailedFirst, connLog, spc>>

\* Start, line 285, the receive <-errChan: blocks until tun.listen has returned.
RecvErrChan(c) ==
    /\ pc[c] = "recv"
    /\ lpc = "done"
    /\ result' = [result EXCEPT ![c] = listenRet]
    /\ pc' = [pc EXCEPT ![c] = "stop"]
    /\ UNCHANGED <<forwardType, mutex, started, ctx, ctxDone, active, sshClient, run,
                   listener, lpc, listenRet, apc, groupErr, hpc, accepted, dials,
                   closes, acceptFailedFirst, tunnelLog, connLog, spc>>

\* A stop that leaves tun.started set.
stopKeepFlag(c) ==
    /\ pc[c] = "stop"
    /\ mutex = 0
    /\ pc' = [pc EXCEPT ![c] = "notifyStopped"]
    /\ UNCHANGED <<forwardType, mutex, started, ctx, ctxDone, active, sshClient,
                   result, run, listener, lpc, listenRet, apc, groupErr, hpc, accepted,
                   dials, closes, acceptFailedFirst, tunnelLog, connLog, spc>>

\* stop, lines 323-325: the flag is cleared under the mutex.
stopClearFlag(c) ==
    /\ pc[c] = "stop"
    /\ mutex = 0
    /\ started' = FALSE
    /\ pc' = [pc EXCEPT ![c] = "notifyStopped"]
    /\ UNCHANGED <<forwardType, mutex, ctx, ctxDone, active, sshClient, result, run,
                   listener, lpc, listenRet, apc, groupErr, hpc, accepted, dials,
                   closes, acceptFailedFirst, tunnelLog, connLog, spc>>

\* stop, lines 326-329: the Stopped notification, then Start returns err.
stopNotify(c) ==
    /\ pc[c] = "notifyStopped"
    /\ tunnelLog' = IF run[c] = ctx THEN Notify(run[c], StateStopped)
                     ELSE SelectSeq(tunnelLog, LAMBDA e : e[1] # run[c])
    /\ pc' = [pc EXCEPT ![c] = IF run[c] = ctx THEN "returned" ELSE "idle"]
    /\ run' = [run EXCEPT ![c] = IF run[c] = ctx THEN @ ELSE 0]
    /\ UNCHANGED <<forwardType, mutex, started, ctx, ctxDone, active, sshClient,
                   result, listener, lpc, listenRet, apc, groupErr, hpc, accepted,
                   dials, closes, acceptFailedFirst, connLog, spc>>

\* ------------------------------------------------------------------- Stop
\* Stop is called: its caller is at tun.mutex.Lock(), line 290.
StopCall ==
    /\ spc \in {"idle", "noop"}
    /\ spc' = "lock"
    /\ UNCHANGED <<forwardType, mutex, started, ctx, ctxDone, active, sshClient, pc,
                   result, run, listener, lpc, listenRet, apc, groupErr, hpc, accepted,
                   dials, closes, acceptFailedFirst, tunnelLog, connLog>>

\* A Stop that calls tun.cancel without looking at tun.started.
StopBodyAlways ==
    /\ spc = "lock"
    /\ mutex = 0
    /\ ctxDone' = TRUE
    /\ spc' = IF started THEN "idle" ELSE "noop"
    /\ UNCHANGED <<forwardType, mutex, started, ctx, active, sshClient, pc, result,
                   run, listener, lpc, listenRet, apc, groupErr, hpc, accepted, dials,
                   closes, acceptFailedFirst, tunnelLog, connLog>>

\* A Stop that returns without calling tun.cancel.
StopBodyNoCancel ==
    /\ spc = "lock"
    /\ mutex = 0
    /\ spc' = IF started THEN "idle" ELSE "noop"
    /\ UNCHANGED <<forwardType, mutex, started, ctx, ctxDone, active, sshClient, pc,
                   result, run, listener, lpc, listenRet, apc, groupErr, hpc, accepted,
                   dials, closes, acceptFailedFirst, tunnelLog, connLog>>

\* Stop, lines 290-296, once the mutex is free: tun.cancel() if started. The
\* caller's position records a call that did nothing ("noop").
StopBody ==
    /\ spc = "lock"
    /\ mutex = 0
    /\ IF started
       THEN /\ ctxDone' = TRUE
            /\ spc' = "idle"
       ELSE /\ spc' = "noop"
            /\ UNCHANGED ctxDone
    /\ UNCHANGED <<forwardType, mutex, started, ctx, active, sshClient, pc, result,
                   run, listener, lpc, listenRet, apc, groupErr, hpc, accepted, dials,
                   closes, acceptFailedFirst, tunnelLog, connLog>>

\* ----------------------------------------------------------------- listen
\* A listen that waits for tun.ctx instead of the group's context: an error
\* returned to the errgroup does not make it close the listener.
listenCloseCtxOnly ==
    /\ lpc = "waitDone"
    /\ ctxDone
    /\ listener' = "closed"
    /\ lpc' = "wait"
    /\ UNCHANGED <<forwardType, mutex, started, ctx, ctxDone, active, sshClient, pc,
                   result, run, listenRet, apc, groupErr, hpc, accepted, dials, closes,
                   acceptFailedFirst, tunnelLog, connLog, spc>>

\* listen, lines 380-382: <-groupCtx.Done(), then listener.Close().
listenClose ==
    /\ lpc = "waitDone"
    /\ GroupDone
    /\ listener' = "closed"
    /\ lpc' = "wait"
    /\ UNCHANGED <<forwardType, mutex, started, ctx, ctxDone, active, sshClient, pc,
                   result, run, listenRet, apc, groupErr, hpc, accepted, dials, closes,
                   acceptFailedFirst, tunnelLog, connLog, spc>>

\* A listen that does not wait for the handlers: Wait returns when the accept
\* goroutine has returned.
listenWaitNoJoin ==
    /\ lpc = "wait"
    /\ apc = "done"
    /\ listenRet' = IF ctxDone THEN NoErr ELSE groupErr
    /\ lpc' = "done"
    /\ UNCHANGED <<forwardType, mutex, started, ctx, ctxDone, active, sshClient, pc,
                   result, run, listener, apc, groupErr, hpc, accepted, dials, closes,
                   acceptFailedFirst, tunnelLog, connLog, spc>>

\* listen, lines 384-392: errGroup.Wait() returns once the accept goroutine and
\* every handler have returned; the select returns nil when tun.ctx is done, else
\* the group's error.
listenWait ==
    /\ lpc = "wait"
    /\ apc = "done"
    /\ \A k \in Conns : hpc[k] \in {"none", "done", "failed"}
    /\ listenRet' = IF ctxDone THEN NoErr ELSE groupErr
    /\ lpc' = "done"
    /\ UNCHANGED <<forwardType, mutex, started, ctx, ctxDone, active, sshClient, pc,
                   result, run, listener, apc, groupErr, hpc, accepted, dials, closes,
                   acceptFailedFirst, tunnelLog, connLog, spc>>

\* listen, lines 369 and 374-376: Accept returns a connection and its handler
\* goroutine is started.
acceptConn ==
    /\ apc = "accept"
    /\ listener = "open"
    /\ accepted < MaxConns
    /\ \E k \in Conns :
        /\ hpc[k] = "none"
        /\ \A j \in Conns : j < k => hpc[j] # "none"
        /\ hpc' = [hpc EXCEPT ![k] = "addConn"]
    /\ accepted' = accepted + 1
    /\ UNCHANGED <<forwardType, mutex, started, ctx, ctxDone, active, sshClient, pc,
                   result, run, listener, lpc, listenRet, apc, groupErr, dials, closes,
                   acceptFailedFirst, tunnelLog, connLog, spc>>

\* listen, lines 369-373: Accept fails although the listener is open (socket
\* error, lost session); the accept goroutine returns the error to the group.
acceptError ==
    /\ apc = "accept"
    /\ listener = "open"
    /\ apc' = "done"
    /\ groupErr' = FirstErr(AcceptErr)
    /\ acceptFailedFirst' = (~GroupDone /\ spc # "lock")
    /\ UNCHANGED <<forwardType, mutex, started, ctx, ctxDone, active, sshClient, pc,
                   result, run, listener, lpc, listenRet, hpc, accepted, dials, closes,
                   tunnelLog, connLog, spc>>

\* listen, lines 369-373: Accept fails because the listener was closed.
acceptClosed ==
    /\ apc = "accept"
    /\ listener = "closed"
    /\ apc' = "done"
    /\ groupErr' = FirstErr(AcceptErr)
    /\ UNCHANGED <<forwardType, mutex, started, ctx, ctxDone, active, sshClient, pc,
                   result, run, listener, lpc, listenRet, hpc, accepted, dials, closes,
                   acceptFailedFirst, tunnelLog, connLog, spc>>

\* ----------------------------------------------------------------- handle
\* An addConn that dials for every connection, whatever tun.active is.
addConnLockAlwaysDial(k) ==
    /\ hpc[k] = "addConn"
    /\ mutex = 0
    /\ IF forwardType = Local
       THEN /\ mutex' = k
            /\ hpc' = [hpc EXCEPT ![k] = "dial"]
            /\ UNCHANGED <<active, connLog>>
       ELSE /\ active' = active + 1
            /\ hpc' = [hpc EXCEPT ![k] = "forward"]
            /\ connLog' = NotifyConn(k, "start")
            /\ UNCHANGED mutex
    /\ UNCHANGED <<forwardType, started, ctx, ctxDone, sshClient, pc, result, run,
                   listener, lpc, listenRet, apc, groupErr, accepted, dials, closes,
                   acceptFailedFirst, tunnelLog, spc>>

\* addConn, lines 408-411 and 419-421: Lock; when no dial is needed the count is
\* incremented and the mutex released at once, and forward begins with its
\* notification. In Local mode with active = 0 the handler goes on to ssh.Dial
\* with the mutex held.
addConnLock(k) ==
    /\ hpc[k] = "addConn"
    /\ mutex = 0
    /\ IF forwardType = Local /\ active = 0
       THEN /\ mutex' = k
            /\ hpc' = [hpc EXCEPT ![k] = "dial"]
            /\ UNCHANGED <<active, connLog>>
       ELSE /\ active' = active + 1
            /\ hpc' = [hpc EXCEPT ![k] = "forward"]
            /\ connLog' = NotifyConn(k, "start")
            /\ UNCHANGED mutex
    /\ UNCHANGED <<forwardType, started, ctx, ctxDone, sshClient, pc, result, run,
                   listener, lpc, listenRet, apc, groupErr, accepted, dials, closes,
                   acceptFailedFirst, tunnelLog, spc>>

\* addConn, lines 412-421, and handle, lines 396-401: ssh.Dial returns, the mutex
\* still held. On success the session is stored, active incremented, and forward
\* begins; on failure addConn returns the error, handle returns it, and the
\* errgroup records it.
addConnDial(k) ==
    /\ hpc[k] = "dial"
    /\ mutex = k
    /\ \E ok \in BOOLEAN :
        IF ok
        THEN /\ dials' = dials + 1
             /\ sshClient' = dials + 1
             /\ active' = active + 1
             /\ hpc' = [hpc EXCEPT ![k] = "forward"]
             /\ connLog' = NotifyConn(k, "start")
             /\ UNCHANGED groupErr
        ELSE /\ hpc' = [hpc EXCEPT ![k] = "failed"]
             /\ groupErr' = FirstErr(ConnDialErr)
             /\ UNCHANGED <<dials, sshClient, active, connLog>>
    /\ mutex' = 0
    /\ UNCHANGED <<forwardType, started, ctx, ctxDone, pc, result, run, listener, lpc,
                   listenRet, apc, accepted, closes, acceptFailedFirst, tunnelLog, spc>>

\* forward (called at handle, line 401): the copy ends (a side closed, an I/O
\* error, or the tunnel's context was cancelled), both ends are closed, and the end
\* notification is delivered. Its error field (set when the copy failed, nil when
\* the connection closed normally) has no effect on the tunnel and is not recorded.
forward(k) ==
    /\ hpc[k] = "forward"
    /\ connLog' = NotifyConn(k, "end")
    /\ hpc' = [hpc EXCEPT ![k] = "removeConn"]
    /\ UNCHANGED <<forwardType, mutex, started, ctx, ctxDone, active, sshClient, pc,
                   result, run, listener, lpc, listenRet, apc, groupErr, accepted,
                   dials, closes, acceptFailedFirst, tunnelLog, spc>>

\* removeConn, lines 425-430: Lock and decrement; in Local mode the last
\* connection goes on to close the session with the mutex held.
removeConnLock(k) ==
    /\ hpc[k] = "removeConn"
    /\ mutex = 0
    /\ active' = active - 1
    /\ IF forwardType = Local /\ active - 1 = 0
       THEN /\ mutex' = k
            /\ hpc' = [hpc EXCEPT ![k] = "close"]
       ELSE /\ hpc' = [hpc EXCEPT ![k] = "done"]
            /\ UNCHANGED mutex
    /\ UNCHANGED <<forwardType, started, ctx, ctxDone, sshClient, pc, result, run,
                   listener, lpc, listenRet, apc, groupErr, accepted, dials, closes,
                   acceptFailedFirst, tunnelLog, connLog, spc>>

\* A removeConn that closes the session and leaves tun.sshClient set.
removeConnCloseKeepHandle(k) ==
    /\ hpc[k] = "close"
    /\ mutex = k
    /\ closes' = closes + 1
    /\ mutex' = 0
    /\ hpc' = [hpc EXCEPT ![k] = "done"]
    /\ UNCHANGED <<forwardType, started, ctx, ctxDone, active, sshClient, pc, result,
                   run, listener, lpc, listenRet, apc, groupErr, accepted, dials,
                   acceptFailedFirst, tunnelLog, connLog, spc>>

\* removeConn, lines 431-433: tun.sshClient.Close() returns, the handle is
\* cleared and the mutex released; handle returns nil.
removeConnClose(k) ==
    /\ hpc[k] = "close"
    /\ mutex = k
    /\ closes' = closes + 1
    /\ sshClient' = 0
    /\ mutex' = 0
    /\ hpc' = [hpc EXCEPT ![k] = "done"]
    /\ UNCHANGED <<forwardType, started, ctx, ctxDone, active, pc, result, run,
                   listener, lpc, listenRet, apc, groupErr, accepted, dials,
                   acceptFailedFirst, tunnelLog, connLog, spc>>

Next ==
    \/ \E c \in Callers : StartCall(c)
    \/ \E c \in Callers : NotifyStarting(c)
    \/ \E c \in Callers : InitSSHConfig(c)
    \/ \E c \in Callers : LocalListen(c)
    \/ \E c \in Callers : RemoteDial(c)
    \/ \E c \in Callers : RemoteListen(c)
    \/ \E c \in Callers : SpawnListen(c)
    \/ \E c \in Callers : NotifyStarted(c)
    \/ \E c \in Callers : RecvErrChan(c)
    \/ \E c \in Callers : stopClearFlag(c)
    \/ \E c \in Callers : stopNotify(c)
    \/ StopCall
    \/ StopBody
    \/ listenClose
    \/ listenWait
    \/ acceptConn
    \/ acceptError
    \/ acceptClosed
    \/ \E k \in Conns : addConnLock(k)
    \/ \E k \in Conns : addConnDial(k)
    \/ \E k \in Conns : forward(k)
    \/ \E k \in Conns : removeConnLock(k)
    \/ \E k \in Conns : removeConnClose(k)

Spec == Init /\ [][Next]_vars

\* ---------------------------------------------------------------- fairness
\* The steps a Start call takes by itself once it holds the flag (calling Start
\* is the caller's choice and is not among them).
StartSteps(c) ==
    \/ NotifyStarting(c)
    \/ InitSSHConfig(c)
    \/ LocalListen(c)
    \/ RemoteDial(c)
    \/ RemoteListen(c)
    \/ SpawnListen(c)
    \/ NotifyStarted(c)
    \/ RecvErrChan(c)
    \/ stopClearFlag(c)
    \/ stopNotify(c)

\* The steps of the handler goroutine of connection k. ssh.Dial and Close return
\* (the dial is bounded by the configured timeout); forward is required to end
\* only once the tunnel's context is cancelled, otherwise it ends when the
\* connection does, which may be never.
HandlerSteps(k) ==
    \/ addConnLock(k)
    \/ addConnDial(k)
    \/ (ctxDone /\ forward(k))
    \/ removeConnLock(k)
    \/ removeConnClose(k)

\* The Go scheduler runs every runnable goroutine: each Start call in flight, a
\* Stop call that was made, the listen goroutine, the accept goroutine once its
\* listener is closed, and every handler. Calls of Start and Stop, arriving
\* connections and Accept failures on an open listener are the environment's.
Fairness ==
    /\ \A c \in Callers : WF_vars(StartSteps(c))
    /\ WF_vars(StopBody)
    /\ WF_vars(listenClose \/ listenWait)
    /\ WF_vars(acceptClosed)
    /\ \A k \in Conns : WF_vars(HandlerSteps(k))

\* One run of the tunnel: the first Start that takes the flag, with every other
\* step of the program; a later Start finds the tunnel as the first one did
\* (StartTake resets the run, and active and the handle are back to 0 and nil).
OneRunNext == Next /\ (ctx' = ctx \/ ctx = 0)

FairSpec == Init /\ [][OneRunNext]_vars /\ Fairness

\* ---------------------------------------------------------------- claims
\* The states delivered to connState by run g, in order.
RunStates(g) ==
    LET sel == SelectSeq(tunnelLog, LAMBDA e : e[1] = g)
    IN  [i \in 1..Len(sel) |-> sel[i][2]]

\* Caller c's Start call owns the latest run and is past stop()'s critical
\* section: the value it returns is fixed (pc "notifyStopped") or returned.
Returning(c) == pc[c] \in {"notifyStopped", "returned"} /\ run[c] = ctx

\* Everything of the tunnel and of its run except the Start callers' own records.
existingRun == <<forwardType, mutex, started, ctx, ctxDone, active, sshClient, listener,
                 lpc, listenRet, apc, groupErr, hpc, accepted, dials, closes,
                 acceptFailedFirst, tunnelLog, connLog, spc>>

\* C1: Start calls on one tunnel are mutually exclusive. At most one call is in
\* flight (holds the started flag) at any time, the flag is set exactly while one
\* is, and a Start called while the flag is set returns "already started", delivers
\* no notification and leaves the flag, ctx/cancel, active, the shared session and
\* the rest of the existing run unchanged.
C1_StartExclusive ==
    /\ [](/\ Cardinality({c \in Callers : pc[c] \in InFlightPcs}) <= 1
          /\ started <=> (\E c \in Callers : pc[c] \in InFlightPcs))
    /\ [][\A c \in Callers :
            (/\ started
             /\ pc[c] \in {"idle", "returned"}
             /\ <<pc[c], result[c], run[c]>>' # <<pc[c], result[c], run[c]>>)
            => (/\ pc'[c] = "returned"
                /\ result'[c] = AlreadyStarted
                /\ UNCHANGED existingRun)]_vars

\* C1 witness: a call was rejected while another call's run has a connection open.
C1_Witness ==
    \E c, d \in Callers :
        /\ c # d
        /\ pc[d] = "recv"
        /\ pc[c] = "returned" /\ result[c] = AlreadyStarted
        /\ active > 0

\* C2: Stop on a tunnel that is not started is a no-op. The step of Stop that finds
\* tun.started false changes nothing but the position of Stop's caller: no
\* notification, no cancellation, every tunnel field as before.
C2_StopNotStartedNoop ==
    [][(spc = "lock" /\ spc' # "lock" /\ ~started)
         => (/\ spc' = "noop"
             /\ UNCHANGED <<forwardType, mutex, started, ctx, ctxDone, active, sshClient,
                            pc, result, run, listener, lpc, listenRet, apc, groupErr,
                            hpc, accepted, dials, closes, acceptFailedFirst, tunnelLog,
                            connLog>>)]_vars

\* C2 witness: Stop did nothing after a Start had returned, and the tunnel can be
\* started again.
C2_Witness ==
    /\ spc = "noop"
    /\ ~started
    /\ ~ctxDone
    /\ \E c \in Callers : pc[c] = "returned" /\ run[c] = ctx /\ ctx < MaxRuns

CleanLifecycle ==
    /\ lpc = "done"
    /\ ctxDone
    /\ ~acceptFailedFirst
    /\ hpc[1] = "done"
    /\ \A k \in Conns : k # 1 => hpc[k] = "none"

C5_StopReturnsNil ==
    \A c \in Callers :
        (/\ Returning(c)
         /\ ctxDone
         /\ result[c] \notin {ConfigErr, LocalListenErr, DialErr, RemoteListenErr,
                              AcceptErr, ConnDialErr})
        => result[c] = NoErr

\* C6: a run whose accept loop was ended by an Accept failure that
\* came before any cancellation returns a non-nil error from Start, whether or not
\* Stop is called later.
C6_AcceptFailureReturned ==
    \A c \in Callers :
        (Returning(c) /\ lpc = "done" /\ acceptFailedFirst) => result[c] # NoErr

\* C7: reference counting in Local mode. A session is dialed only on the 0 -> 1
\* transition of active and closed only by the Release that brings active to 0;
\* while connections overlap (active stays positive) no dial and no close happens;
\* so at most one session is open, N overlapping connections share one dial, and it
\* is closed exactly once, by the last one.
C7_RefCount ==
    /\ [](forwardType = Local =>
            /\ dials - closes = IF sshClient = 0 THEN 0 ELSE 1
            /\ active >= 0)
    /\ [][(forwardType = Local /\ ctx' = ctx) =>
            /\ dials' # dials =>
                 /\ dials' = dials + 1
                 /\ active = 0 /\ sshClient = 0
                 /\ active' = 1 /\ sshClient' # 0
            /\ closes' # closes =>
                 /\ closes' = closes + 1
                 /\ sshClient # 0
                 /\ active' = 0 /\ sshClient' = 0
            /\ (active > 0 /\ active' > 0) =>
                 /\ sshClient' = sshClient
                 /\ dials' = dials
                 /\ closes' = closes]_vars

\* C7 witness: two connections were forwarded on one dial (so they overlapped) and
\* the session was closed once, by the one that finished last.
C7_Witness ==
    /\ forwardType = Local
    /\ \A k \in 1..2 : hpc[k] = "done"
    /\ dials = 1
    /\ closes = 1
    /\ active = 0
    /\ sshClient = 0

\* C8: idempotent restart. When the Start of a Start/Stop cycle (setup
\* succeeded, ended by Stop, nil returned) returns, in Local and in Remote mode, its
\* run has delivered [Starting, Started] (and Stopped on return), every session
\* dialed by it is closed, no accept or forwarder task is running, active is 0 and
\* the shared handle is nil.
C8_NoLeakOnReturn ==
    \A c \in Callers :
        (Returning(c) /\ lpc = "done" /\ ctxDone /\ result[c] = NoErr)
        => /\ RunStates(run[c]) = IF pc[c] = "returned"
                                  THEN <<StateStarting, StateStarted, StateStopped>>
                                  ELSE <<StateStarting, StateStarted>>
           /\ dials = closes
           /\ apc = "done"
           /\ \A k \in Conns : hpc[k] \in {"none", "done", "failed"}
           /\ active = 0
           /\ sshClient = 0

\* C9: Stop never waits for a transport dial or a session close: no
\* caller of Stop is blocked at the mutex while a handler holds it inside ssh.Dial
\* or sshClient.Close.
C9_StopNeverWaits ==
    ~(spc = "lock" /\ \E k \in Conns : mutex = k /\ hpc[k] \in {"dial", "close"})

\* C10: in Local mode a failed dial in addConn is connection-scoped: the failure
\* of a connection's dial is never the error Start returns.
C10_DialFailureConnScoped ==
    \A c \in Callers : Returning(c) => result[c] # ConnDialErr

\* The handler of connection k has returned (or the slot is unused).
HandlerDone(k) == hpc[k] \in {"none", "done", "failed"}

\* C11: in every run the Started notification is delivered before any connection
\* is accepted and handled, hence before any connection-state notification: when a
\* handler exists or a connection-state notification was delivered, Started is
\* among the states the run has delivered.
C11_StartedBeforeConns ==
    (\E k \in Conns : hpc[k] # "none" \/ connLog[k] # <<>>)
    => \E i \in 1..Len(RunStates(ctx)) : RunStates(ctx)[i] = StateStarted

\* C12: structured join. The started flag is cleared only when the accept goroutine
\* and every handler of the run have returned, and from then until Start returns
\* (Stopped delivered) no handler of the run is executing.
C12_StructuredJoin ==
    /\ [](\A c \in Callers :
            Returning(c) => /\ apc \in {"none", "done"}
                            /\ \A k \in Conns : HandlerDone(k))
    /\ [][(started /\ ~started')
            => /\ apc \in {"none", "done"}
               /\ \A k \in Conns : HandlerDone(k)]_vars

\* C12 witness: Start has returned from a run that handled two connections to
\* their end and was ended by Stop.
C12_Witness ==
    \E c \in Callers :
        /\ pc[c] = "returned" /\ run[c] = ctx
        /\ ctxDone
        /\ apc = "done"
        /\ \A k \in 1..2 : hpc[k] = "done"

\* C13: in Local mode, whenever the mutex is not held, active >= 0 and the shared
\* session handle is non-nil exactly when active > 0; the handle is set only on
\* the 0 -> 1 transition of active, cleared only in the critical section that
\* brought active from 1 to 0, and a dial failure in addConn leaves active and the
\* handle unchanged.
C13_ActiveHandle ==
    /\ []((forwardType = Local /\ mutex = 0)
            => /\ active >= 0
               /\ (sshClient # 0) <=> (active > 0))
    /\ [][forwardType = Local =>
            /\ (sshClient = 0 /\ sshClient' # 0) => (active = 0 /\ active' = 1)
            /\ (sshClient # 0 /\ sshClient' = 0)
                 => (active = 0 /\ active' = 0
                     /\ \E k \in Conns : mutex = k /\ hpc[k] = "close")
            /\ \A k \in Conns :
                 (hpc[k] = "dial" /\ hpc'[k] = "failed")
                 => (active' = active /\ sshClient' = sshClient)]_vars

\* C13 witness: one connection's dial failed, a later one dialed and is being
\* forwarded; the mutex is free.
C13_Witness ==
    /\ forwardType = Local
    /\ mutex = 0
    /\ hpc[1] = "failed"
    /\ hpc[2] = "forward"
    /\ active = 1
    /\ sshClient # 0

\* C14: the mutex is never held across a blocking operation: no handler owns it
\* while its ssh.Dial or its sshClient.Close is in progress.
C14_MutexNotAcrossBlocking ==
    \A k \in Conns : mutex = k => hpc[k] \notin {"dial", "close"}

\* The moves of the tunnel-state machine Stopped -> Starting -> (Started ->) Stopped.
ValidMoves == {<<StateStopped, StateStarting>>, <<StateStarting, StateStarted>>,
               <<StateStarting, StateStopped>>, <<StateStarted, StateStopped>>}

\* C17: the tunnel-state notifications, taken over all Start calls in delivery
\* order, form a valid path of the state machine: the first is Starting and each
\* next one is a move of the machine from the one before, so the Stopped of one
\* run precedes the Starting of the next.
C17_ValidPath ==
    /\ tunnelLog # <<>> => tunnelLog[1][2] = StateStarting
    /\ \A i \in 1..(Len(tunnelLog) - 1) :
         <<tunnelLog[i][2], tunnelLog[i + 1][2]>> \in ValidMoves

\* C19: in Remote mode, when the server dial of Start succeeded and the
\* remote-listen request failed, the session dialed by that Start is closed from
\* stop() on, hence when Start returns.
C19_FailedStartClosesSession ==
    \A c \in Callers :
        (Returning(c) /\ result[c] = RemoteListenErr) => dials = closes

\* The connection of slot k was closed: forward closes both ends when the copy
\* ends; handle closes nothing itself, so a connection whose addConn failed
\* ("failed") stays open.
ConnClosed(k) == hpc[k] \in {"removeConn", "close", "done"}

\* C20: every connection Accept returned in a run is closed by the time the Start
\* call of the run returns, a connection whose addConn failed included.
C20_AcceptedConnsClosed ==
    \A c \in Callers :
        Returning(c) => \A k \in Conns : hpc[k] # "none" => ConnClosed(k)

\* Accept has returned an error in the current run: the accept goroutine is gone.
AcceptFailed == apc = "done"

\* A handler of the run is, or may yet come to be, inside forward.
Forwarding == \E k \in Conns : hpc[k] \in {"addConn", "dial", "forward"}

\* The Start call that owns the current run is in progress at one of the
\* positions ps.
RunAt(ps) == \E c \in Callers : run[c] = ctx /\ pc[c] \in ps

\* The Start call of the current run has delivered Stopped and returned, the
\* flag cleared and the listener, if one was opened, closed.
RunReturned ==
    /\ RunAt({"returned"})
    /\ ~started
    /\ listener # "open"
    /\ Len(RunStates(ctx)) > 0
    /\ RunStates(ctx)[Len(RunStates(ctx))] = StateStopped

C16_StopLiveness ==
    (spc = "lock" /\ RunAt({"recv"})) ~> (RunReturned /\ listener = "closed")

\* C16 witness: Stop cancelled a Started run that had a connection in forward, and
\* the Start call has returned nil.
C16_Witness ==
    \E c \in Callers :
        /\ pc[c] = "returned" /\ run[c] = ctx
        /\ ctxDone
        /\ hpc[1] = "done"
        /\ listener = "closed"
        /\ ~started
        /\ result[c] = NoErr

\* The setup phase of Start: the flag is set and the accept loop is not running.
SetupPcs == {"notifyStarting", "initSSHConfig", "localListen", "remoteDial",
             "remoteListen", "spawn"}

\* C18: a Stop issued while the tunnel is Starting is not lost. The Start call of
\* that run returns without a further Stop, and once listen has observed the
\* cancellation (the listener is closed) the run accepts no connection.
C18_StopDuringStartingNotLost ==
    /\ [][(listener = "closed" /\ ctx' = ctx) => accepted' = accepted]_vars
    /\ (ctxDone /\ RunAt(SetupPcs)) ~> RunReturned

\* C18 witness: Stop cancelled the run during setup, the setup went on to succeed,
\* and the goroutine running listen is about to be started.
C18_Witness ==
    \E c \in Callers :
        /\ pc[c] = "spawn" /\ run[c] = ctx
        /\ ctxDone
        /\ listener = "open"

====
